---- MODULE Spec2Model ----
(***************************************************************************)
(* A model of svg-timeline: the Timeline/Row/Event aggregate, the geometry *)
(* resolver (setup), the layout engine (Generate, drawEvent), the tick     *)
(* generator, and the line-oriented config parser (GenerateFromCFG).       *)
(*                                                                         *)
(* Conventions                                                             *)
(*  - time.Duration is an integer number of nanoseconds; its 64-bit        *)
(*    wrap-around is modelled at a scaled word width (DurBits).            *)
(*  - time.Time is a natural number; 0 is the zero time (Time.IsZero()).   *)
(*  - a Go string is a sequence of text pieces; "" is << >>.               *)
(*  - a float64 is an exact rational << numerator, denominator >> in       *)
(*    lowest terms (rounding of the float operations is not modelled).     *)
(*  - a value that may be absent (the document of a failed Generate, the   *)
(*    pending event of the parser) is a sequence of length 0 or 1.         *)
(***************************************************************************)
EXTENDS Integers, Sequences, FiniteSets, TLC

VARIABLES tl, ret, ps

vars == << tl, ret, ps >>

(***************************************************************************)
(* Bounds of the model                                                     *)
(***************************************************************************)
MaxRows == 2

MaxEvents == 2

MaxLines == 5

DurBits == 8

(***************************************************************************)
(* Integer helpers                                                         *)
(***************************************************************************)
Abs(x) == IF x < 0 THEN -x ELSE x

Min2(a, b) == IF a < b THEN a ELSE b

Max2(a, b) == IF a > b THEN a ELSE b

\* Go's integer division truncates toward zero.
QuoT(a, b) == IF (a >= 0) = (b > 0) THEN Abs(a) \div Abs(b) ELSE -(Abs(a) \div Abs(b))

\* Two's complement wrap of a time.Duration (int64 in the source).
WrapDur(x) == ((x + 2^(DurBits - 1)) % 2^DurBits) - 2^(DurBits - 1)

RECURSIVE GCD(_, _)
GCD(a, b) == IF b = 0 THEN a ELSE GCD(b, a % b)

\* The rational n/d in lowest terms with a positive denominator (d # 0).
Rat(n, d) ==
    LET g == GCD(Abs(n), Abs(d))
        s == IF d < 0 THEN -1 ELSE 1
    IN  << s * (n \div g), s * (d \div g) >>

RatInt(n) == << n, 1 >>

RatAdd(p, q) == Rat(p[1] * q[2] + q[1] * p[2], p[2] * q[2])

RatMul(p, q) == Rat(p[1] * q[1], p[2] * q[2])

RatDiv(p, q) == Rat(p[1] * q[2], p[2] * q[1])

RatLeq(p, q) == p[1] * q[2] <= q[1] * p[2]

RatMin(p, q) == IF RatLeq(p, q) THEN p ELSE q

\* int(f): conversion of a float64 to int truncates toward zero.
RatTrunc(p) == QuoT(p[1], p[2])

(***************************************************************************)
(* Data model (src/timeline.go)                                            *)
(***************************************************************************)
EventTypeTask == 0

EventTypeEra == 1

ErrNegativeDuration == "duration of events cannot be negative"

ErrInconsistentTime == "when Time is set on any Event, it must be set on all of them"

ErrNoPositiveDuration == "none of the events has a positive duration"

NoErr == "nil"

\* Event{Type, ID, Class, Text, Title, Duration, Time}
Event(type, id, class, text, title, duration, time) ==
    [Type |-> type, ID |-> id, Class |-> class, Text |-> text, Title |-> title,
     Duration |-> duration, Time |-> time]

IsZero(t) == t = 0

Before(a, b) == a < b

\* Time.Sub returns the maximum (minimum) Duration when the difference
\* exceeds it.
Sub(a, b) ==
    LET hi == 2^(DurBits - 1) - 1
        lo == -(2^(DurBits - 1))
    IN  IF a - b > hi THEN hi ELSE IF a - b < lo THEN lo ELSE a - b

NewTimeline ==
    [rows |-> << >>,
     id |-> << >>,
     width |-> 1000,
     height |-> << >>,
     precision |-> 1000,
     numTicks |-> 8,
     tickHeight |-> 5,
     marginTop |-> 15,
     marginBottom |-> 15,
     marginLeft |-> 10,
     marginRight |-> 30,
     earliest |-> 0,
     maxDuration |-> 0,
     tickLabelMargin |-> 0,
     contentHeight |-> 0,
     totalHeight |-> 0,
     contentWidth |-> 0,
     totalWidth |-> 0]

SetID(t, id) == [t EXCEPT !.id = id]

SetPrecision(t, p) == [t EXCEPT !.precision = p]

SetWidth(t, w) == [t EXCEPT !.width = w]

SetNumTicks(t, n) == [t EXCEPT !.numTicks = n]

SetTickHeight(t, h) == [t EXCEPT !.tickHeight = h]

SetMargins(t, top, right, bottom, left) ==
    [t EXCEPT !.marginTop = top, !.marginBottom = bottom,
              !.marginLeft = left, !.marginRight = right]

AddRow(t, height, separatorHeight) ==
    [t EXCEPT !.rows = Append(@, [height |-> height,
                                  separatorHeight |-> separatorHeight,
                                  events |-> << >>])]

\* Row.AddEvent on the row at (1-based) index i.
AddEvent(t, i, e) == [t EXCEPT !.rows[i].events = Append(@, e)]

\* Row.StartTime: the earliest non-zero Time of the row's events, else zero.
RECURSIVE RowStartTimeFrom(_, _, _)
RowStartTimeFrom(events, k, earliest) ==
    IF k > Len(events) THEN earliest
    ELSE LET e == events[k]
         IN  IF IsZero(e.Time) THEN RowStartTimeFrom(events, k + 1, earliest)
             ELSE IF IsZero(earliest) \/ Before(e.Time, earliest)
                  THEN RowStartTimeFrom(events, k + 1, e.Time)
                  ELSE RowStartTimeFrom(events, k + 1, earliest)

RowStartTime(r) == RowStartTimeFrom(r.events, 1, 0)

\* Timeline.StartTime
RECURSIVE StartTimeFrom(_, _, _)
StartTimeFrom(rows, k, earliest) ==
    IF k > Len(rows) THEN earliest
    ELSE LET rowStartTime == RowStartTime(rows[k])
         IN  IF IsZero(earliest) \/ Before(rowStartTime, earliest)
             THEN StartTimeFrom(rows, k + 1, rowStartTime)
             ELSE StartTimeFrom(rows, k + 1, earliest)

StartTime(t) == StartTimeFrom(t.rows, 1, 0)

\* Row.TotalDuration(earliest)
RECURSIVE TotalDurationFrom(_, _, _, _, _)
TotalDurationFrom(events, k, earliest, total, maxByTime) ==
    IF k > Len(events) THEN Max2(total, maxByTime)
    ELSE LET event == events[k]
             total2 == WrapDur(total + event.Duration)
             byTime == WrapDur(Sub(event.Time, earliest) + event.Duration)
         IN  IF ~IsZero(earliest) /\ ~IsZero(event.Time) /\ byTime > maxByTime
             THEN TotalDurationFrom(events, k + 1, earliest, total2, byTime)
             ELSE TotalDurationFrom(events, k + 1, earliest, total2, maxByTime)

TotalDuration(r, earliest) == TotalDurationFrom(r.events, 1, earliest, 0, 0)

\* Timeline.MaxDuration
RECURSIVE MaxDurationFrom(_, _, _)
MaxDurationFrom(t, k, m) ==
    IF k > Len(t.rows) THEN m
    ELSE LET duration == TotalDuration(t.rows[k], StartTime(t))
         IN  MaxDurationFrom(t, k + 1, IF duration > m THEN duration ELSE m)

MaxDuration(t) == MaxDurationFrom(t, 1, 0)

\* Timeline.TotalRowHeight
RECURSIVE TotalRowHeightFrom(_, _)
TotalRowHeightFrom(rows, k) ==
    IF k > Len(rows) THEN 0
    ELSE rows[k].height + rows[k].separatorHeight + TotalRowHeightFrom(rows, k + 1)

TotalRowHeight(t) == TotalRowHeightFrom(t.rows, 1)

\* All events of the timeline, row by row, in the order setup visits them.
RECURSIVE AllEventsFrom(_, _)
AllEventsFrom(rows, k) ==
    IF k > Len(rows) THEN << >> ELSE rows[k].events \o AllEventsFrom(rows, k + 1)

AllEvents(t) == AllEventsFrom(t.rows, 1)

\* Timeline.GetRowByIndex(i): the row pointer it returns, as the position
\* in t.rows of the row it points to (<< >> for nil). Indexing a slice
\* with a negative index is a run-time panic.
GetRowByIndex(t, i) ==
    IF i >= Len(t.rows)
    THEN [op |-> "GetRowByIndex", err |-> NoErr, doc |-> << >>, arg |-> i]
    ELSE IF i < 0
    THEN [op |-> "GetRowByIndex", err |-> "panic: index out of range",
          doc |-> << >>, arg |-> i]
    ELSE [op |-> "GetRowByIndex", err |-> NoErr, doc |-> << i + 1 >>, arg |-> i]

\* Timeline.GetLastRow(), as a returned value.
LastRow(t) ==
    [op |-> "GetLastRow", err |-> NoErr,
     doc |-> IF Len(t.rows) = 0 THEN << >> ELSE << Len(t.rows) >>]

(***************************************************************************)
(* Geometry resolver: Timeline.setup                                       *)
(***************************************************************************)
\* The validation loop of setup over the events in visiting order; it stops
\* at the first event with a negative duration.
RECURSIVE ScanEvents(_, _, _)
ScanEvents(events, k, acc) ==
    IF k > Len(events) THEN acc
    ELSE LET e == events[k]
         IN  IF e.Duration < 0 THEN [acc EXCEPT !.negative = TRUE]
             ELSE ScanEvents(events, k + 1,
                     [negative |-> FALSE,
                      duration |-> WrapDur(acc.duration + e.Duration),
                      hasTime |-> acc.hasTime \/ ~IsZero(e.Time),
                      hasNoTime |-> acc.hasNoTime \/ IsZero(e.Time)])

ScanStart == [negative |-> FALSE, duration |-> 0, hasTime |-> FALSE, hasNoTime |-> FALSE]

\* The wrapped sum of the durations of events k.. of a sequence.
RECURSIVE SumDurations(_, _)
SumDurations(events, k) ==
    IF k > Len(events) THEN 0
    ELSE WrapDur(events[k].Duration + SumDurations(events, k + 1))

\* Mutant: the validation without the negative-duration check.
setupErr_NoNegativeCheck(t) ==
    LET all == AllEvents(t)
        hasTime == \E k \in 1..Len(all) : ~IsZero(all[k].Time)
        hasNoTime == \E k \in 1..Len(all) : IsZero(all[k].Time)
    IN  IF hasTime /\ hasNoTime THEN ErrInconsistentTime
        ELSE IF SumDurations(all, 1) = 0 THEN ErrNoPositiveDuration
        ELSE NoErr

\* Mutant: the zero-duration check made before the mixed-StartTime check.
setupErr_ZeroBeforeMixed(t) ==
    LET s == ScanEvents(AllEvents(t), 1, ScanStart)
    IN  IF s.negative THEN ErrNegativeDuration
        ELSE IF s.duration = 0 THEN ErrNoPositiveDuration
        ELSE IF s.hasTime /\ s.hasNoTime THEN ErrInconsistentTime
        ELSE NoErr

\* Mutant: the zero-duration check replaced by a check for "no events".
setupErr_ZeroOnlyWhenNoEvents(t) ==
    LET s == ScanEvents(AllEvents(t), 1, ScanStart)
    IN  IF s.negative THEN ErrNegativeDuration
        ELSE IF s.hasTime /\ s.hasNoTime THEN ErrInconsistentTime
        ELSE IF Len(AllEvents(t)) = 0 THEN ErrNoPositiveDuration
        ELSE NoErr

\* Mutant: the zero-duration check skipped for a timeline without events.
setupErr_EmptyPasses(t) ==
    LET s == ScanEvents(AllEvents(t), 1, ScanStart)
    IN  IF s.negative THEN ErrNegativeDuration
        ELSE IF s.hasTime /\ s.hasNoTime THEN ErrInconsistentTime
        ELSE IF s.duration = 0 /\ Len(AllEvents(t)) > 0 THEN ErrNoPositiveDuration
        ELSE NoErr

\* Mutant: the negative-duration check made after the mixed-StartTime check.
setupErr_MixedBeforeNegative(t) ==
    LET all == AllEvents(t)
        hasTime == \E k \in 1..Len(all) : ~IsZero(all[k].Time)
        hasNoTime == \E k \in 1..Len(all) : IsZero(all[k].Time)
        s == ScanEvents(all, 1, ScanStart)
    IN  IF hasTime /\ hasNoTime THEN ErrInconsistentTime
        ELSE IF s.negative THEN ErrNegativeDuration
        ELSE IF s.duration = 0 THEN ErrNoPositiveDuration
        ELSE NoErr

\* The error setup returns (NoErr when validation passes).
setupErr(t) ==
    LET s == ScanEvents(AllEvents(t), 1, ScanStart)
    IN  IF s.negative THEN ErrNegativeDuration
        ELSE IF s.hasTime /\ s.hasNoTime THEN ErrInconsistentTime
        ELSE IF s.duration = 0 THEN ErrNoPositiveDuration
        ELSE NoErr

\* The timeline after a setup that passed validation ("Initialize variables").
\* Mutant: the content width is the configured width less the side margins.
setupInit_WidthLessMargins(t) ==
    LET maxDuration == MaxDuration(t)
        contentHeight == TotalRowHeight(t)
        totalHeight == contentHeight + t.marginTop + t.marginBottom + t.tickHeight + 15
        contentWidth == t.width - t.marginLeft - t.marginRight
    IN  [t EXCEPT !.tickLabelMargin = 15,
                  !.maxDuration = maxDuration,
                  !.contentHeight = contentHeight,
                  !.earliest = StartTime(t),
                  !.totalHeight = totalHeight,
                  !.height = IF t.height = << >> THEN << totalHeight >> ELSE t.height,
                  !.contentWidth = contentWidth,
                  !.totalWidth = contentWidth + t.marginLeft + t.marginRight]

setupInit(t) ==
    LET maxDuration == MaxDuration(t)
        contentHeight == TotalRowHeight(t)
        totalHeight == contentHeight + t.marginTop + t.marginBottom + t.tickHeight + 15
        contentWidth == Min2(t.precision, maxDuration)
    IN  [t EXCEPT !.tickLabelMargin = 15,
                  !.maxDuration = maxDuration,
                  !.contentHeight = contentHeight,
                  !.earliest = StartTime(t),
                  !.totalHeight = totalHeight,
                  !.height = IF t.height = << >> THEN << totalHeight >> ELSE t.height,
                  !.contentWidth = contentWidth,
                  !.totalWidth = contentWidth + t.marginLeft + t.marginRight]

\* setup: the timeline it leaves behind (unchanged when validation fails).
setup(t) == IF setupErr(t) = NoErr THEN setupInit(t) ELSE t

(***************************************************************************)
(* Layout and render engine: Timeline.drawEvent, Timeline.Generate         *)
(***************************************************************************)
\* formatDuration(d, 2): d rounded to two sub-unit digits. The label is
\* d.String() of the result, which is one-to-one, so the label is modelled
\* by the rounded duration. Duration.Round(m) rounds half away from zero
\* and returns d unchanged when m <= 0.
Round(d, m) ==
    IF m <= 0 THEN d
    ELSE LET r == Abs(d) % m
             a == IF r + r < m THEN Abs(d) - r ELSE Abs(d) + m - r
         IN  IF d < 0 THEN -a ELSE a

formatDuration(d) ==
    IF d > 1000000000 THEN Round(d, 1000000000 \div 100)
    ELSE IF d > 1000000 THEN Round(d, 1000000 \div 100)
    ELSE IF d > 1000 THEN Round(d, 1000 \div 100)
    ELSE IF d > 1 THEN Round(d, 1 \div 100)
    ELSE d

\* Mutant: the start time used as the elapsed time, without the origin.
eventElapsed_NoOrigin(t, event, currentDuration) ==
    IF ~IsZero(t.earliest) THEN WrapDur(event.Time) ELSE currentDuration

\* drawEvent, first statement: the elapsed time at which the event starts.
eventElapsed(t, event, currentDuration) ==
    IF ~IsZero(t.earliest) THEN Sub(event.Time, t.earliest) ELSE currentDuration

\* drawEvent: startX, for the elapsed time cur.
eventStartX(t, cur) ==
    RatAdd(RatInt(t.marginLeft), Rat(t.contentWidth * cur, t.maxDuration))

\* Mutant: the width scaled by the configured precision, not the content width.
eventWidth_ByPrecision(t, event) == Rat(t.precision * event.Duration, t.maxDuration)

\* drawEvent: eventWidth.
eventWidth(t, event) == Rat(t.contentWidth * event.Duration, t.maxDuration)

\* Mutant: the cursor is never advanced.
cursorAfter_NoAdvance(t, event, cur) == cur

\* drawEvent, last statements: the cursor it returns.
cursorAfter(t, event, cur) ==
    IF IsZero(t.earliest) THEN WrapDur(cur + event.Duration) ELSE cur

\* Mutant: the label of an Era gets the size of a Task label.
eventTextSize_EraLikeTask(event, rowHeight, width) ==
    RatTrunc(RatMin(RatInt(QuoT(rowHeight, 2)),
                    RatDiv(width, Rat(Len(event.Text) * 7, 10))))

\* drawEvent: textSize, for an event with a non-empty Text
\* (textWidthFactor = 0.7).
eventTextSize(event, rowHeight, width) ==
    LET textSize == RatTrunc(RatMin(RatInt(QuoT(rowHeight, 2)),
                                    RatDiv(width, Rat(Len(event.Text) * 7, 10))))
    IN  IF event.Type = EventTypeEra THEN textSize - 1 ELSE textSize

\* drawEvent: the group it appends to the document and the cursor it returns.
drawEvent(t, event, currentY, rowHeight, currentDuration) ==
    LET cur == eventElapsed(t, event, currentDuration)
        startX == eventStartX(t, cur)
        width == eventWidth(t, event)
        isEra == event.Type = EventTypeEra
        height == IF isEra
                  THEN t.totalHeight - currentY - t.marginBottom - (t.tickHeight * 3)
                  ELSE rowHeight
        strokeDashArray == IF isEra THEN << 0, width, height, 0 >> ELSE << >>
        textYOffset == IF isEra THEN Rat(rowHeight, 3) ELSE Rat(rowHeight, 2)
        class == (IF isEra THEN << "tl-era" >> ELSE << "tl-event" >>)
                 \o (IF event.Class # << >> THEN << " " >> \o event.Class ELSE << >>)
        textSize == eventTextSize(event, rowHeight, width)
        group == [ID |-> event.ID,
                  Class |-> class,
                  title |-> IF event.Title # << >> THEN << event.Title >> ELSE << >>,
                  rect |-> [X |-> startX, Y |-> currentY, Width |-> width,
                            Height |-> height, StrokeDasharray |-> strokeDashArray],
                  text |-> IF event.Text # << >> /\ textSize >= 3
                           THEN << [X |-> RatAdd(startX, RatDiv(width, RatInt(2))),
                                    Y |-> RatAdd(RatInt(currentY), textYOffset),
                                    FontSize |-> textSize,
                                    Content |-> event.Text] >>
                           ELSE << >>]
    IN  [group |-> group, currentDuration |-> cursorAfter(t, event, cur)]

\* The inner loop of Generate over one row's events, from event k on.
RECURSIVE DrawEvents(_, _, _, _, _)
DrawEvents(t, row, k, currentY, currentDuration) ==
    IF k > Len(row.events) THEN << >>
    ELSE LET d == drawEvent(t, row.events[k], currentY, row.height, currentDuration)
         IN  << d.group >> \o DrawEvents(t, row, k + 1, currentY, d.currentDuration)

\* Mutant: the vertical offset advances by the row height only.
RECURSIVE DrawRows_NoSeparator(_, _, _)
DrawRows_NoSeparator(t, k, currentY) ==
    IF k > Len(t.rows) \/ t.maxDuration <= 0 THEN << >>
    ELSE LET row == t.rows[k]
         IN  DrawEvents(t, row, 1, currentY, 0)
             \o DrawRows_NoSeparator(t, k + 1, currentY + row.height)

\* The "Draw rows" loop of Generate, from row k on.
RECURSIVE DrawRows(_, _, _)
DrawRows(t, k, currentY) ==
    IF k > Len(t.rows) \/ t.maxDuration <= 0 THEN << >>
    ELSE LET row == t.rows[k]
         IN  DrawEvents(t, row, 1, currentY, 0)
             \o DrawRows(t, k + 1, currentY + row.height + row.separatorHeight)

\* Mutant: the loop stops before i = numTicks (i < numTicks).
DrawTicks_ExclusiveEnd(t) ==
    LET timelineY == t.marginTop + t.contentHeight + t.tickHeight
    IN  IF t.numTicks > 0 /\ t.maxDuration > 0
        THEN LET tickDuration == QuoT(t.maxDuration, t.numTicks)
             IN  [j \in 1..t.numTicks |->
                    LET currentDuration == WrapDur(tickDuration * (j - 1))
                        x == RatAdd(RatInt(t.marginLeft),
                                    Rat(t.contentWidth * currentDuration, t.maxDuration))
                        topY == IF j = 1 THEN t.marginTop ELSE timelineY - t.tickHeight
                    IN  [line |-> [X1 |-> x, Y1 |-> topY, X2 |-> x,
                                   Y2 |-> timelineY + t.tickHeight],
                         label |-> [X |-> x,
                                    Y |-> timelineY + t.tickHeight + t.tickLabelMargin,
                                    Content |-> formatDuration(currentDuration)]]]
        ELSE << >>

\* The "Draw tick marks and labels" block of Generate.
DrawTicks(t) ==
    LET timelineY == t.marginTop + t.contentHeight + t.tickHeight
    IN  IF t.numTicks > 0 /\ t.maxDuration > 0
        THEN LET tickDuration == QuoT(t.maxDuration, t.numTicks)
             IN  [j \in 1..(t.numTicks + 1) |->
                    LET i == j - 1
                        currentDuration == WrapDur(tickDuration * i)
                        x == RatAdd(RatInt(t.marginLeft),
                                    Rat(t.contentWidth * currentDuration, t.maxDuration))
                        topY == IF i = 0 \/ i = t.numTicks THEN t.marginTop
                                ELSE timelineY - t.tickHeight
                    IN  [line |-> [X1 |-> x, Y1 |-> topY, X2 |-> x,
                                   Y2 |-> timelineY + t.tickHeight],
                         label |-> [X |-> x,
                                    Y |-> timelineY + t.tickHeight + t.tickLabelMargin,
                                    Content |-> formatDuration(currentDuration)]]]
        ELSE << >>

\* The document Generate assembles from a timeline on which setup has passed.
Document(t) ==
    LET timelineY == t.marginTop + t.contentHeight + t.tickHeight
    IN  [ID |-> t.id,
         Width |-> t.width,
         Height |-> t.height,
         ViewBox |-> << 0, 0, t.totalWidth, t.totalHeight >>,
         background |-> [X |-> 0, Y |-> 0, Width |-> t.totalWidth, Height |-> t.totalHeight],
         groups |-> DrawRows(t, 1, t.marginTop),
         axis |-> [X1 |-> t.marginLeft, Y1 |-> timelineY,
                   X2 |-> t.marginLeft + t.contentWidth, Y2 |-> timelineY],
         ticks |-> DrawTicks(t)]

\* xml.EscapeText, which the encoder applies to every attribute value and
\* to all character data: each of & < > " ' becomes an entity (one piece of
\* the emitted text), every other piece is copied.
EscapeText(s) ==
    [i \in 1..Len(s) |->
        CASE s[i] = "&" -> "&amp;"
          [] s[i] = "<" -> "&lt;"
          [] s[i] = ">" -> "&gt;"
          [] s[i] = "\"" -> "&#34;"
          [] s[i] = "'" -> "&#39;"
          [] OTHER -> s[i]]

\* Mutant: the id attributes are written as they are.
Encode_RawIdentifiers(doc) ==
    [doc EXCEPT
        !.groups = [k \in 1..Len(doc.groups) |->
                      LET grp == doc.groups[k]
                      IN  [grp EXCEPT
                             !.Class = EscapeText(@),
                             !.title = [j \in 1..Len(grp.title) |-> EscapeText(grp.title[j])],
                             !.text = [j \in 1..Len(grp.text) |->
                                         [grp.text[j] EXCEPT !.Content = EscapeText(@)]]]]]

\* encoder.Encode(root): the strings of the document as they are written,
\* the id and class attributes of the svg and g elements and the character
\* data of the title and text elements.
Encode(doc) ==
    [doc EXCEPT
        !.ID = EscapeText(@),
        !.groups = [k \in 1..Len(doc.groups) |->
                      LET grp == doc.groups[k]
                      IN  [grp EXCEPT
                             !.ID = EscapeText(@),
                             !.Class = EscapeText(@),
                             !.title = [j \in 1..Len(grp.title) |-> EscapeText(grp.title[j])],
                             !.text = [j \in 1..Len(grp.text) |->
                                         [grp.text[j] EXCEPT !.Content = EscapeText(@)]]]]]

\* Generate: (document, error); the document is absent ("") on error.
Generate(t) ==
    LET err == setupErr(t)
    IN  [op |-> "Generate",
         err |-> err,
         doc |-> IF err = NoErr THEN << Encode(Document(setup(t))) >> ELSE << >>]

NoRet == [op |-> "none", err |-> NoErr, doc |-> << >>]

(***************************************************************************)
(* Inputs of the operations                                                *)
(***************************************************************************)
EventTypes == {EventTypeTask, EventTypeEra}

Durations == {-1, 0, 2}

Times == {0, 5}

RowHeights == {30}

SeparatorHeights == {5}

Precisions == {2}

MarginSets == { << 20, 40, 10, 5 >> }

\* The events a caller adds: every kind, duration and start time, no texts.
Events ==
    { Event(ty, << >>, << >>, << >>, << >>, d, tm) :
        ty \in EventTypes, d \in Durations, tm \in Times }

NumEvents(t) == Len(AllEvents(t))

\* Inputs of the geometry scenarios: valid durations (a zero among them),
\* events without a start time and events with one.
GeomDurations == {0, 1, 3}

GeomTimes == {0, 5}

GeomEvents ==
    { Event(ty, << >>, << >>, << >>, << >>, d, tm) :
        ty \in EventTypes, d \in GeomDurations, tm \in GeomTimes }

\* Inputs of the absolute-versus-sequential scenario: Tasks whose start time
\* is the origin T0 plus the durations already in the first row.
ChainDurations == {0, 1, 2, 3}

ChainOrigins == {5, 6}

RowSum(t, i) == SumDurations(t.rows[i].events, 1)

ChainEvents(t) ==
    IF Len(t.rows) = 0 THEN {}
    ELSE LET first == t.rows[1].events
         IN  { Event(EventTypeTask, << >>, << >>, << >>, << >>, d, t0 + RowSum(t, 1)) :
                 d \in ChainDurations,
                 t0 \in (IF Len(first) = 0 THEN ChainOrigins ELSE {first[1].Time}) }

PsIdle == [status |-> "idle"]

(***************************************************************************)
(* The programmatic surface as a state machine                             *)
(***************************************************************************)
Init ==
    /\ tl = NewTimeline
    /\ ret = NoRet
    /\ ps = PsIdle

DoAddRow(H, S) ==
    /\ Len(tl.rows) < MaxRows
    /\ \E h \in H, s \in S : tl' = AddRow(tl, h, s)
    /\ ret' = NoRet
    /\ UNCHANGED ps

DoAddEvent(E) ==
    /\ NumEvents(tl) < MaxEvents
    /\ \E i \in 1..Len(tl.rows), e \in E : tl' = AddEvent(tl, i, e)
    /\ ret' = NoRet
    /\ UNCHANGED ps

DoSetPrecision(P) ==
    /\ \E p \in P : tl' = SetPrecision(tl, p)
    /\ ret' = NoRet
    /\ UNCHANGED ps

DoSetMargins(M) ==
    /\ \E m \in M : tl' = SetMargins(tl, m[1], m[2], m[3], m[4])
    /\ ret' = NoRet
    /\ UNCHANGED ps

DoGenerate ==
    /\ tl' = setup(tl)
    /\ ret' = Generate(tl)
    /\ UNCHANGED ps

Next ==
    \/ DoAddRow(RowHeights, SeparatorHeights)
    \/ DoAddEvent(Events)
    \/ DoSetMargins(MarginSets)
    \/ DoGenerate

Spec == Init /\ [][Next]_vars

\* The geometry scenarios: the same operations on valid events, with the
\* precision (the cap of the content width) varied.
NextGeom ==
    \/ DoAddRow(RowHeights, SeparatorHeights)
    \/ DoAddEvent(GeomEvents)
    \/ DoSetPrecision(Precisions)
    \/ DoGenerate

SpecGeom == Init /\ [][NextGeom]_vars

\* The absolute-versus-sequential scenario: Tasks chained by start time.
NextChain ==
    \/ DoAddRow(RowHeights, SeparatorHeights)
    \/ DoAddEvent(ChainEvents(tl))
    \/ DoSetPrecision(Precisions)
    \/ DoGenerate

SpecChain == Init /\ [][NextChain]_vars

\* The tick scenarios: valid sequential Tasks, the tick count varied (the
\* default 8 exceeds every span here; 0 is the smallest count the claims
\* consider).
TickDurations == {1, 3, 5}

TickCounts == {0, 2, 3}

TickEvents ==
    { Event(EventTypeTask, << >>, << >>, << >>, << >>, d, 0) : d \in TickDurations }

DoSetNumTicks(N) ==
    /\ \E n \in N : tl' = SetNumTicks(tl, n)
    /\ ret' = NoRet
    /\ UNCHANGED ps

NextTicks ==
    \/ DoAddRow(RowHeights, SeparatorHeights)
    \/ DoAddEvent(TickEvents)
    \/ DoSetNumTicks(TickCounts)
    \/ DoGenerate

SpecTicks == Init /\ [][NextTicks]_vars

\* The configuration scenarios: every setter of the horizontal layout and
\* of the tick count, with values of either sign, on valid sequential Tasks.
Widths == {50, -5}

ConfTickCounts == {-1}

ConfDurations == {1, 3}

ConfEvents ==
    { Event(EventTypeTask, << >>, << >>, << >>, << >>, d, 0) : d \in ConfDurations }

DoSetWidth(W) ==
    /\ \E w \in W : tl' = SetWidth(tl, w)
    /\ ret' = NoRet
    /\ UNCHANGED ps

NextConf ==
    \/ DoAddRow(RowHeights, SeparatorHeights)
    \/ DoAddEvent(ConfEvents)
    \/ DoSetWidth(Widths)
    \/ DoSetNumTicks(ConfTickCounts)
    \/ DoSetMargins(MarginSets)
    \/ DoSetPrecision(Precisions)
    \/ DoGenerate

SpecConf == Init /\ [][NextConf]_vars

\* The text scenarios: identifiers, labels and tooltips that contain the
\* five reserved characters, on events wide enough for their label.
PlainText == << "a" >>

ReservedText == << "a", "&", "<", ">", "\"", "'" >>

TextDurations == {50}

TextEvents ==
    { Event(ty, f[1], << >>, f[2], f[3], d, 0) :
        ty \in EventTypes, d \in TextDurations,
        f \in { << ReservedText, PlainText, PlainText >>,
                << PlainText, ReservedText, PlainText >>,
                << PlainText, PlainText, ReservedText >>,
                << ReservedText, ReservedText, ReservedText >> } }

DoSetID(I) ==
    /\ \E id \in I : tl' = SetID(tl, id)
    /\ ret' = NoRet
    /\ UNCHANGED ps

NextText ==
    \/ DoAddRow(RowHeights, SeparatorHeights)
    \/ DoAddEvent(TextEvents)
    \/ DoSetID({ReservedText})
    \/ DoGenerate

SpecText == Init /\ [][NextText]_vars

\* The row accessors: rows of two heights, looked up by every index from
\* below zero to beyond the last row.
AccessHeights == {20, 30}

AccessEvents == { Event(EventTypeTask, << >>, << >>, << >>, << >>, 1, 0) }

Indexes == -2..(MaxRows + 1)

DoGetRowByIndex(I) ==
    /\ \E i \in I : ret' = GetRowByIndex(tl, i)
    /\ UNCHANGED << tl, ps >>

DoGetLastRow ==
    /\ ret' = LastRow(tl)
    /\ UNCHANGED << tl, ps >>

NextRows ==
    \/ DoAddRow(AccessHeights, SeparatorHeights)
    \/ DoAddEvent(AccessEvents)
    \/ DoGetRowByIndex(Indexes)
    \/ DoGetLastRow

SpecRows == Init /\ [][NextRows]_vars

\* The span scenarios: Tasks with and without a start time, two distinct
\* start times, and one more row than elsewhere so that a row without
\* events can lie between rows that have some.
MaxSpanRows == MaxRows + 1

SpanDurations == {1, 2}

SpanTimes == {0, 5, 8}

SpanEvents ==
    { Event(EventTypeTask, << >>, << >>, << >>, << >>, d, tm) :
        d \in SpanDurations, tm \in SpanTimes }

DoAddRowUpTo(N, H, S) ==
    /\ Len(tl.rows) < N
    /\ \E h \in H, s \in S : tl' = AddRow(tl, h, s)
    /\ ret' = NoRet
    /\ UNCHANGED ps

NextSpan ==
    \/ DoAddRowUpTo(MaxSpanRows, RowHeights, SeparatorHeights)
    \/ DoAddEvent(SpanEvents)
    \/ DoGenerate

SpecSpan == Init /\ [][NextSpan]_vars

\* The vertical layout scenarios: rows of two heights with a separator,
\* Tasks and Eras, the default tick height and a large one.
LayoutHeights == {20, 30}

LayoutSeparators == {5}

TickHeights == {40}

LayoutEvents ==
    { Event(ty, << >>, << >>, << >>, << >>, 1, 0) : ty \in EventTypes }

DoSetTickHeight(H) ==
    /\ \E h \in H : tl' = SetTickHeight(tl, h)
    /\ ret' = NoRet
    /\ UNCHANGED ps

NextLayout ==
    \/ DoAddRow(LayoutHeights, LayoutSeparators)
    \/ DoAddEvent(LayoutEvents)
    \/ DoSetTickHeight(TickHeights)
    \/ DoGenerate

SpecLayout == Init /\ [][NextLayout]_vars

\* The label scenarios: a low and a high row, narrow and wide events of
\* both kinds, all with the same label of six characters.
LabelHeights == {6, 30}

LabelDurations == {10, 50}

LabelText == << "a", "b", "c", "d", "e", "f" >>

LabelEvents ==
    { Event(ty, << >>, << >>, LabelText, << >>, d, 0) :
        ty \in EventTypes, d \in LabelDurations }

NextLabel ==
    \/ DoAddRow(LabelHeights, SeparatorHeights)
    \/ DoAddEvent(LabelEvents)
    \/ DoGenerate

SpecLabel == Init /\ [][NextLabel]_vars

\* The scenarios with long durations: up to MaxWrapEvents untimed Tasks
\* whose durations are 0, 2, a quarter of the range of time.Duration and
\* the largest time.Duration.
MaxWrapEvents == MaxEvents + 1

QuarterDuration == 2^(DurBits - 2)

MaxInt64Duration == 2^(DurBits - 1) - 1

WrapDurations == {0, 2, QuarterDuration, MaxInt64Duration}

WrapEvents ==
    { Event(EventTypeTask, << >>, << >>, << >>, << >>, d, 0) : d \in WrapDurations }

DoAddEventUpTo(N, E) ==
    /\ NumEvents(tl) < N
    /\ \E i \in 1..Len(tl.rows), e \in E : tl' = AddEvent(tl, i, e)
    /\ ret' = NoRet
    /\ UNCHANGED ps

NextWrap ==
    \/ DoAddRow(RowHeights, SeparatorHeights)
    \/ DoAddEventUpTo(MaxWrapEvents, WrapEvents)
    \/ DoGenerate

SpecWrap == Init /\ [][NextWrap]_vars

(***************************************************************************)
(* Config parser: GenerateFromCFG (src/cmd/cli/svgtimeline.go)             *)
(*                                                                         *)
(* A line of the input is modelled after TrimSpace by what the scanner     *)
(* makes of it:                                                            *)
(*   kind "blank"   an empty line or a # comment                           *)
(*   kind "section" a line starting with @; marker is parts[0], args the   *)
(*                  further space-separated parts                          *)
(*   kind "kv"      key=value; for a numeric, duration or time key, ok     *)
(*                  says whether the value parses and n is the parsed      *)
(*                  value; for a text key, s is the value                  *)
(*   kind "junk"    any other line (no = in it)                            *)
(* An argument of a section line is [ok, n]: whether strconv.Atoi accepts  *)
(* it, and the number it yields.                                           *)
(***************************************************************************)
Line(kind, marker, args, key, ok, n, str) ==
    [kind |-> kind, marker |-> marker, args |-> args, key |-> key,
     ok |-> ok, n |-> n, s |-> str]

BlankLine == Line("blank", "", << >>, "", TRUE, 0, << >>)

SectionLine(marker, args) == Line("section", marker, args, "", TRUE, 0, << >>)

NumLine(key, n) == Line("kv", key, << >>, key, TRUE, n, << >>)

BadNumLine(key) == Line("kv", key, << >>, key, FALSE, 0, << >>)

TextLine(key, str) == Line("kv", key, << >>, key, TRUE, 0, str)

JunkLine == Line("junk", "", << >>, "", TRUE, 0, << >>)

IntArg(n) == [ok |-> TRUE, n |-> n]

BadArg == [ok |-> FALSE, n |-> 0]

\* The errors of the parser: the message and the line number it carries (0
\* when the message carries none).
CfgErr(msg, line) == [msg |-> msg, line |-> line]

CfgNoErr == CfgErr(NoErr, 0)

\* The locals of GenerateFromCFG before the first line is scanned.
PsStart ==
    [status |-> "scanning",
     margins |-> << 0, 0, 0, 0 >>,
     setMargins |-> FALSE,
     currentEvent |-> << >>,
     currentSection |-> "",
     lineNum |-> 0,
     err |-> CfgNoErr,
     input |-> << >>]

\* Timeline.GetLastRow: the index of the last row, 0 for nil.
GetLastRow(t) == Len(t.rows)

\* parseIntDefault(parts, i, def), parts[0] being the section marker.
parseIntDefault(args, i, def) ==
    IF Len(args) + 1 <= i THEN def
    ELSE IF args[i].ok THEN args[i].n ELSE def

ZeroEvent(type) == Event(type, << >>, << >>, << >>, << >>, 0, 0)

CfgFail(p, msg, line) == [p EXCEPT !.status = "error", !.err = CfgErr(msg, line)]

\* Mutant: a pending event is dropped, without an error, when there is no
\* row to add it to.
ParseSection_DropsOrphan(t, p, line) ==
    LET row == GetLastRow(t)
        t1 == IF p.currentEvent # << >> /\ row # 0
              THEN AddEvent(t, row, p.currentEvent[1]) ELSE t
        p1 == [p EXCEPT !.currentEvent = << >>, !.currentSection = line.marker]
    IN  IF line.marker = "@row"
        THEN [tl |-> AddRow(t1, parseIntDefault(line.args, 1, 30),
                                parseIntDefault(line.args, 2, 5)),
              ps |-> p1]
        ELSE IF line.marker = "@era"
        THEN [tl |-> t1, ps |-> [p1 EXCEPT !.currentEvent = << ZeroEvent(EventTypeEra) >>]]
        ELSE IF line.marker = "@task"
        THEN [tl |-> t1, ps |-> [p1 EXCEPT !.currentEvent = << ZeroEvent(EventTypeTask) >>]]
        ELSE [tl |-> t1, ps |-> p1]

\* Mutant: at an @row line the new row is opened before the pending event
\* is added to the last row.
ParseSection_FlushesIntoNewRow(t, p, line) ==
    LET pending == p.currentEvent # << >>
        row == GetLastRow(t)
    IN  IF pending /\ row = 0
        THEN [tl |-> t,
              ps |-> CfgFail(p, "cannot add an event without creating a row first",
                             p.lineNum)]
        ELSE LET t1 == IF pending THEN AddEvent(t, row, p.currentEvent[1]) ELSE t
                 p1 == [p EXCEPT !.currentEvent = << >>, !.currentSection = line.marker]
             IN  IF line.marker = "@row"
                 THEN LET t2 == AddRow(t, parseIntDefault(line.args, 1, 30),
                                          parseIntDefault(line.args, 2, 5))
                      IN  [tl |-> IF pending
                                  THEN AddEvent(t2, GetLastRow(t2), p.currentEvent[1])
                                  ELSE t2,
                           ps |-> p1]
                 ELSE IF line.marker = "@era"
                 THEN [tl |-> t1,
                       ps |-> [p1 EXCEPT !.currentEvent = << ZeroEvent(EventTypeEra) >>]]
                 ELSE IF line.marker = "@task"
                 THEN [tl |-> t1,
                       ps |-> [p1 EXCEPT !.currentEvent = << ZeroEvent(EventTypeTask) >>]]
                 ELSE [tl |-> t1, ps |-> p1]

\* case '@': the pending event is added to the last row, then the section
\* is switched and its structural action performed.
ParseSection(t, p, line) ==
    LET pending == p.currentEvent # << >>
        row == GetLastRow(t)
    IN  IF pending /\ row = 0
        THEN [tl |-> t,
              ps |-> CfgFail(p, "cannot add an event without creating a row first",
                             p.lineNum)]
        ELSE LET t1 == IF pending THEN AddEvent(t, row, p.currentEvent[1]) ELSE t
                 p1 == [p EXCEPT !.currentEvent = << >>, !.currentSection = line.marker]
             IN  IF line.marker = "@row"
                 THEN [tl |-> AddRow(t1, parseIntDefault(line.args, 1, 30),
                                         parseIntDefault(line.args, 2, 5)),
                       ps |-> p1]
                 ELSE IF line.marker = "@era"
                 THEN [tl |-> t1,
                       ps |-> [p1 EXCEPT !.currentEvent = << ZeroEvent(EventTypeEra) >>]]
                 ELSE IF line.marker = "@task"
                 THEN [tl |-> t1,
                       ps |-> [p1 EXCEPT !.currentEvent = << ZeroEvent(EventTypeTask) >>]]
                 ELSE [tl |-> t1, ps |-> p1]

NumericKeys ==
    {"width", "num_ticks", "tick_height",
     "margin_top", "margin_bottom", "margin_left", "margin_right"}

\* key=value in the @timeline section.
ParseTimelineKey(t, p, line) ==
    IF line.key \in NumericKeys
    THEN IF ~line.ok
         THEN [tl |-> t, ps |-> CfgFail(p, "strconv.Atoi", p.lineNum)]
         ELSE IF line.key = "width" THEN [tl |-> SetWidth(t, line.n), ps |-> p]
         ELSE IF line.key = "num_ticks" THEN [tl |-> SetNumTicks(t, line.n), ps |-> p]
         ELSE IF line.key = "tick_height" THEN [tl |-> SetTickHeight(t, line.n), ps |-> p]
         ELSE IF line.key = "margin_top"
         THEN [tl |-> t, ps |-> [p EXCEPT !.setMargins = TRUE, !.margins[1] = line.n]]
         ELSE IF line.key = "margin_right"
         THEN [tl |-> t, ps |-> [p EXCEPT !.setMargins = TRUE, !.margins[2] = line.n]]
         ELSE IF line.key = "margin_bottom"
         THEN [tl |-> t, ps |-> [p EXCEPT !.setMargins = TRUE, !.margins[3] = line.n]]
         ELSE [tl |-> t, ps |-> [p EXCEPT !.setMargins = TRUE, !.margins[4] = line.n]]
    ELSE IF line.key = "id" THEN [tl |-> SetID(t, line.s), ps |-> p]
    ELSE [tl |-> t, ps |-> CfgFail(p, "unknown property", p.lineNum)]

\* key=value in an @task or @era section.
ParseEventKey(t, p, line) ==
    LET set(e) == [tl |-> t, ps |-> [p EXCEPT !.currentEvent = << e >>]]
        ev == p.currentEvent[1]
    IN  IF line.key = "id" THEN set([ev EXCEPT !.ID = line.s])
        ELSE IF line.key = "class" THEN set([ev EXCEPT !.Class = line.s])
        ELSE IF line.key = "text" THEN set([ev EXCEPT !.Text = line.s])
        ELSE IF line.key = "title" THEN set([ev EXCEPT !.Title = line.s])
        ELSE IF line.key = "duration"
        THEN IF ~line.ok
             THEN [tl |-> t,
                   ps |-> CfgFail(p, "while parsing duration of event", p.lineNum)]
             ELSE set([ev EXCEPT !.Duration = line.n])
        ELSE IF line.key = "time"
        THEN IF ~line.ok
             THEN [tl |-> t, ps |-> CfgFail(p, "unrecognized time format", 0)]
             ELSE set([ev EXCEPT !.Time = line.n])
        ELSE [tl |-> t, ps |-> CfgFail(p, "unknown event property", p.lineNum)]

\* default: a line that does not start with @.
ParseKeyValue(t, p, line) ==
    IF line.kind # "kv"
    THEN [tl |-> t, ps |-> CfgFail(p, "unknown value", p.lineNum)]
    ELSE IF p.currentSection = "@timeline" THEN ParseTimelineKey(t, p, line)
    ELSE IF p.currentSection = "@row"
    THEN [tl |-> t, ps |-> CfgFail(p, "row has no configuration options", p.lineNum)]
    ELSE IF p.currentSection \in {"@task", "@era"} THEN ParseEventKey(t, p, line)
    ELSE [tl |-> t, ps |-> CfgFail(p, "unknown section", 0)]

\* One iteration of the scanner loop.
ParseLine(t, p, line) ==
    LET p1 == [p EXCEPT !.lineNum = @ + 1, !.input = Append(@, line)]
    IN  IF line.kind = "blank" THEN [tl |-> t, ps |-> p1]
        ELSE IF line.kind = "section" THEN ParseSection(t, p1, line)
        ELSE ParseKeyValue(t, p1, line)

\* Mutant: the pending event is not added to the last row.
ParseEnd_NoFlush(t, p) ==
    LET row == GetLastRow(t)
    IN  IF row = 0
        THEN [tl |-> t,
              ps |-> CfgFail(p, "cannot add an event without creating a row first",
                             p.lineNum),
              ret |-> [op |-> "GenerateFromCFG",
                       err |-> "cannot add an event without creating a row first",
                       doc |-> << >>]]
        ELSE IF p.currentEvent = << >>
        THEN [tl |-> t,
              ps |-> [p EXCEPT !.status = "panic"],
              ret |-> [op |-> "panic", err |-> "nil pointer dereference", doc |-> << >>]]
        ELSE LET t2 == IF p.setMargins
                       THEN SetMargins(t, p.margins[1], p.margins[2],
                                          p.margins[3], p.margins[4])
                       ELSE t
                 g == Generate(t2)
             IN  [tl |-> setup(t2),
                  ps |-> [p EXCEPT !.status = "done", !.currentEvent = << >>,
                                   !.err = CfgErr(g.err, 0)],
                  ret |-> [g EXCEPT !.op = "GenerateFromCFG"]]

\* After the loop ("Last event"): the pending event is added to the last
\* row, the margins are applied and the timeline is generated. Dereferencing
\* the nil currentEvent is a run-time panic.
ParseEnd(t, p) ==
    LET row == GetLastRow(t)
    IN  IF row = 0
        THEN [tl |-> t,
              ps |-> CfgFail(p, "cannot add an event without creating a row first",
                             p.lineNum),
              ret |-> [op |-> "GenerateFromCFG",
                       err |-> "cannot add an event without creating a row first",
                       doc |-> << >>]]
        ELSE IF p.currentEvent = << >>
        THEN [tl |-> t,
              ps |-> [p EXCEPT !.status = "panic"],
              ret |-> [op |-> "panic", err |-> "nil pointer dereference", doc |-> << >>]]
        ELSE LET t1 == AddEvent(t, row, p.currentEvent[1])
                 t2 == IF p.setMargins
                       THEN SetMargins(t1, p.margins[1], p.margins[2],
                                           p.margins[3], p.margins[4])
                       ELSE t1
                 g == Generate(t2)
             IN  [tl |-> setup(t2),
                  ps |-> [p EXCEPT !.status = "done", !.currentEvent = << >>,
                                   !.err = CfgErr(g.err, 0)],
                  ret |-> [g EXCEPT !.op = "GenerateFromCFG"]]

(***************************************************************************)
(* GenerateFromCFG as a process: one step per scanned line, one for the    *)
(* code after the loop                                                     *)
(***************************************************************************)
Text1 == << "a" >>

CfgLines ==
    { BlankLine,
      JunkLine,
      SectionLine("@timeline", << >>),
      SectionLine("@row", << >>),
      SectionLine("@row", << BadArg, IntArg(3) >>),
      SectionLine("@era", << >>),
      SectionLine("@task", << >>),
      NumLine("margin_top", 20),
      NumLine("margin_left", 0),
      NumLine("num_ticks", 3),
      TextLine("id", Text1),
      TextLine("text", Text1),
      NumLine("duration", 2),
      NumLine("time", 5),
      BadNumLine("duration"),
      BadNumLine("time") }

InitCfg ==
    /\ tl = NewTimeline
    /\ ret = NoRet
    /\ ps = PsStart

\* scanner.Scan() yields a line.
ReadLine(L) ==
    /\ ps.status = "scanning"
    /\ ps.lineNum < MaxLines
    /\ \E line \in L :
          LET r == ParseLine(tl, ps, line)
          IN  /\ tl' = r.tl
              /\ ps' = r.ps
              /\ ret' = IF r.ps.status = "error"
                        THEN [op |-> "GenerateFromCFG", err |-> r.ps.err.msg,
                              doc |-> << >>]
                        ELSE ret

\* scanner.Scan() reports the end of the input.
EndOfInput ==
    /\ ps.status = "scanning"
    /\ LET r == ParseEnd(tl, ps)
       IN  /\ tl' = r.tl
           /\ ps' = r.ps
           /\ ret' = r.ret

NextCfg ==
    \/ ReadLine(CfgLines)
    \/ EndOfInput

SpecCfg == InitCfg /\ [][NextCfg]_vars

(***************************************************************************)
(* Properties of validation (Timeline.setup as seen through Generate)      *)
(***************************************************************************)
\* Generate has just returned: ret holds its result for the rows, events and
\* configuration that tl still holds.
Generated == ret.op = "Generate"

GeneratedOk == Generated /\ ret.err = NoErr

HasNegative(t) == \E k \in 1..NumEvents(t) : AllEvents(t)[k].Duration < 0

HasMixedTime(t) ==
    /\ \E k \in 1..NumEvents(t) : AllEvents(t)[k].Time # 0
    /\ \E k \in 1..NumEvents(t) : AllEvents(t)[k].Time = 0

AllZero(t) == \A k \in 1..NumEvents(t) : AllEvents(t)[k].Duration = 0

\* C1: whenever some event of some row has a negative duration, Generate
\* fails with the negative-duration error and returns no document, whatever
\* the other events, their kinds and their start times are.
C1_NegativeDurationRejected ==
    (Generated /\ HasNegative(tl)) =>
        (ret.err = ErrNegativeDuration /\ ret.doc = << >>)

\* Witness of C1: a negative duration next to a positive one that comes first
\* and sets a start time, and Generate has run.
C1_Witness ==
    /\ Generated /\ HasNegative(tl) /\ HasMixedTime(tl)
    /\ NumEvents(tl) >= 2 /\ AllEvents(tl)[1].Duration > 0
    /\ ret.err = ErrNegativeDuration

\* C2: when every duration is >= 0 and some event sets a start time while
\* another does not, Generate fails with the inconsistent-time-mode error
\* and returns no document, whatever the kinds and rows of the events.
C2_MixedTimeRejected ==
    (Generated /\ ~HasNegative(tl) /\ HasMixedTime(tl)) =>
        (ret.err = ErrInconsistentTime /\ ret.doc = << >>)

\* Witness of C2: a Task with a start time in one row and an Era without one
\* in another row, and Generate has run.
C2_Witness ==
    /\ Generated /\ ~HasNegative(tl) /\ HasMixedTime(tl)
    /\ Len(tl.rows) = 2 /\ Len(tl.rows[1].events) = 1 /\ Len(tl.rows[2].events) = 1
    /\ tl.rows[1].events[1].Type # tl.rows[2].events[1].Type
    /\ ret.err = ErrInconsistentTime

\* C3: with at least one row, every duration zero and consistent use of the
\* start time, Generate fails with the no-positive-duration error and
\* returns no document.
C3_AllZeroRejected ==
    (Generated /\ Len(tl.rows) >= 1 /\ AllZero(tl) /\ ~HasMixedTime(tl)) =>
        (ret.err = ErrNoPositiveDuration /\ ret.doc = << >>)

\* Witness of C3: two zero-duration events that both set a start time.
C3_Witness ==
    /\ Generated /\ NumEvents(tl) = 2 /\ AllZero(tl)
    /\ \A k \in 1..2 : AllEvents(tl)[k].Time # 0
    /\ ret.err = ErrNoPositiveDuration

\* The failure kind the specification names for a timeline without rows; no
\* error of the code carries it.
ErrEmptyTimeline == "EmptyTimelineError"

\* C4 as stated: Generate on a timeline with zero rows fails with an
\* EmptyTimelineError of its own, distinct from the no-positive-duration
\* error, and returns no document.
C4_EmptyTimelineOwnError ==
    (Generated /\ Len(tl.rows) = 0) =>
        (ret.err = ErrEmptyTimeline /\ ret.err # ErrNoPositiveDuration /\ ret.doc = << >>)

\* C4 as amended: Generate on a timeline with zero rows fails with the
\* no-positive-duration error (the same failure as an all-zero model) and
\* returns no document.
C4_EmptyTimelineRejected ==
    (Generated /\ Len(tl.rows) = 0) =>
        (ret.err = ErrNoPositiveDuration /\ ret.doc = << >>)

\* Witness of C4: Generate has run on a timeline without rows.
C4_Witness == Generated /\ Len(tl.rows) = 0 /\ ret.err # NoErr

\* The first violated rule in the order negative duration, mixed start
\* times, zero total duration.
FirstViolation(t) ==
    IF HasNegative(t) THEN ErrNegativeDuration
    ELSE IF HasMixedTime(t) THEN ErrInconsistentTime
    ELSE IF AllZero(t) THEN ErrNoPositiveDuration
    ELSE NoErr

\* C5: Generate reports the first violated rule in the order negative
\* duration, mixed start times, zero total duration: negative and mixed
\* gives the negative-duration error, mixed and all-zero gives the
\* inconsistent-time-mode error.
C5_ValidationOrder ==
    Generated =>
        /\ ret.err = FirstViolation(tl)
        /\ (HasNegative(tl) /\ HasMixedTime(tl)) => ret.err = ErrNegativeDuration
        /\ (HasMixedTime(tl) /\ AllZero(tl)) => ret.err = ErrInconsistentTime

\* Witness of C5: the mixed-start-time event precedes the negative one, and
\* the negative-duration error is the one reported.
C5_Witness ==
    /\ Generated /\ NumEvents(tl) = 2
    /\ AllEvents(tl)[1].Time # 0 /\ AllEvents(tl)[1].Duration >= 0
    /\ AllEvents(tl)[2].Time = 0 /\ AllEvents(tl)[2].Duration < 0
    /\ ret.err = ErrNegativeDuration

(***************************************************************************)
(* Determinism of Generate                                                 *)
(***************************************************************************)
\* A timeline freshly built with the rows, events and configuration of t.
Rebuild(t) ==
    [NewTimeline EXCEPT !.rows = t.rows, !.id = t.id, !.width = t.width,
                        !.precision = t.precision, !.numTicks = t.numTicks,
                        !.tickHeight = t.tickHeight, !.marginTop = t.marginTop,
                        !.marginBottom = t.marginBottom, !.marginLeft = t.marginLeft,
                        !.marginRight = t.marginRight]

\* C8 as stated: the result of Generate depends only on the rows, events and
\* configuration at the time of the call; a timeline that was generated
\* before, also with rows or events appended since, yields the document of
\* a freshly built timeline with the same rows, events and configuration.
C8_GenerateDependsOnModelOnly ==
    Generated => (ret = Generate(Rebuild(tl)))

(***************************************************************************)
(* Properties of the horizontal geometry                                   *)
(***************************************************************************)
\* The groups of the document Generate has just returned.
Groups == ret.doc[1].groups

\* The number of events in the rows before row r: the group of event k of
\* row r is Groups[RowOffset(t, r) + k].
RECURSIVE RowOffset(_, _)
RowOffset(t, r) == IF r <= 1 THEN 0 ELSE RowOffset(t, r - 1) + Len(t.rows[r - 1].events)

NoTimes(t) == \A k \in 1..NumEvents(t) : AllEvents(t)[k].Time = 0

\* The x and the width of every rectangle of a document, in document order.
XAndWidth(doc) == [k \in 1..Len(doc.groups) |-> << doc.groups[k].rect.X, doc.groups[k].rect.Width >>]

\* One row of Tasks, each starting where the one before it ends: the start
\* time of event k is T0 plus the durations of the events before it.
RECURSIVE IsChainFrom(_, _, _)
IsChainFrom(events, k, t) ==
    \/ k > Len(events)
    \/ /\ events[k].Type = EventTypeTask
       /\ events[k].Time = t
       /\ IsChainFrom(events, k + 1, t + events[k].Duration)

IsChain(t) ==
    /\ Len(t.rows) = 1
    /\ Len(t.rows[1].events) >= 1
    /\ t.rows[1].events[1].Time # 0
    /\ IsChainFrom(t.rows[1].events, 1, t.rows[1].events[1].Time)

\* The same rows and events with no start time set.
Sequential(t) ==
    [t EXCEPT !.rows = [r \in 1..Len(t.rows) |->
        [t.rows[r] EXCEPT !.events = [k \in 1..Len(t.rows[r].events) |->
            [t.rows[r].events[k] EXCEPT !.Time = 0]]]]]

\* C6: one row of Tasks built in absolute mode, event k starting at T0 plus
\* the durations before it, gets for every event the x and the width of the
\* same Tasks built with no start times, under the same configuration.
C6_AbsoluteChainEqualsSequential ==
    (GeneratedOk /\ IsChain(tl)) =>
        LET seq == Generate(Sequential(Rebuild(tl)))
        IN  /\ seq.err = NoErr
            /\ XAndWidth(ret.doc[1]) = XAndWidth(seq.doc[1])

\* Witness of C6: a chain of two Tasks, the second starting later than the
\* first, generated with the content width capped by the precision.
C6_Witness ==
    /\ GeneratedOk /\ IsChain(tl) /\ NumEvents(tl) = 2
    /\ AllEvents(tl)[2].Time > AllEvents(tl)[1].Time
    /\ AllEvents(tl)[2].Duration > 0
    /\ tl.contentWidth < tl.maxDuration

C10_SequentialEventsAdjacent ==
    (GeneratedOk /\ NoTimes(tl)) =>
        \A r \in 1..Len(tl.rows) :
            \A k \in 1..Len(tl.rows[r].events) :
                LET g == Groups[RowOffset(tl, r) + k].rect
                IN  IF k = 1 THEN g.X = RatInt(tl.marginLeft)
                    ELSE LET p == Groups[RowOffset(tl, r) + k - 1].rect
                         IN  g.X = RatAdd(p.X, p.Width)

\* Witness of C10: an Era followed by a Task in one row, the Task starting
\* to the right of the left margin.
C10_Witness ==
    /\ GeneratedOk /\ NoTimes(tl)
    /\ \E r \in 1..Len(tl.rows) :
          /\ Len(tl.rows[r].events) = 2
          /\ tl.rows[r].events[1].Type = EventTypeEra
          /\ tl.rows[r].events[2].Type = EventTypeTask
          /\ tl.rows[r].events[1].Duration > 0
          /\ tl.rows[r].events[2].Duration > 0
          /\ Groups[RowOffset(tl, r) + 2].rect.X # RatInt(tl.marginLeft)


(***************************************************************************)
(* Config parser against the direct API                                    *)
(***************************************************************************)
\* The timeline a caller of the library builds for the content of a config:
\* every @row line is an AddRow with the given height and separator (30 and
\* 5 when absent or not numbers), every @era / @task line opens an event of
\* that kind whose fields are the key=value lines that follow it and which
\* is added to the row of the nearest preceding @row line, and every key of
\* the @timeline section is the setter of that name called with the value,
\* the four margins being those of NewTimeline unless the config names them.
ApiStart ==
    [t |-> NewTimeline,
     margins |-> << NewTimeline.marginTop, NewTimeline.marginRight,
                    NewTimeline.marginBottom, NewTimeline.marginLeft >>,
     section |-> "",
     ev |-> << >>]

ApiFlush(st) ==
    IF st.ev = << >> THEN st
    ELSE [st EXCEPT !.t = AddEvent(st.t, Len(st.t.rows), st.ev[1]), !.ev = << >>]

ApiStep(st, line) ==
    IF line.kind = "section"
    THEN LET s1 == [ApiFlush(st) EXCEPT !.section = line.marker]
             h == IF Len(line.args) >= 1 /\ line.args[1].ok THEN line.args[1].n ELSE 30
             sep == IF Len(line.args) >= 2 /\ line.args[2].ok THEN line.args[2].n ELSE 5
         IN  CASE line.marker = "@row" -> [s1 EXCEPT !.t = AddRow(s1.t, h, sep)]
               [] line.marker = "@era" -> [s1 EXCEPT !.ev = << ZeroEvent(EventTypeEra) >>]
               [] line.marker = "@task" -> [s1 EXCEPT !.ev = << ZeroEvent(EventTypeTask) >>]
               [] OTHER -> s1
    ELSE IF line.kind = "kv" /\ st.section = "@timeline"
    THEN CASE line.key = "width" -> [st EXCEPT !.t = SetWidth(st.t, line.n)]
           [] line.key = "num_ticks" -> [st EXCEPT !.t = SetNumTicks(st.t, line.n)]
           [] line.key = "tick_height" -> [st EXCEPT !.t = SetTickHeight(st.t, line.n)]
           [] line.key = "id" -> [st EXCEPT !.t = SetID(st.t, line.s)]
           [] line.key = "margin_top" -> [st EXCEPT !.margins[1] = line.n]
           [] line.key = "margin_right" -> [st EXCEPT !.margins[2] = line.n]
           [] line.key = "margin_bottom" -> [st EXCEPT !.margins[3] = line.n]
           [] line.key = "margin_left" -> [st EXCEPT !.margins[4] = line.n]
           [] OTHER -> st
    ELSE IF line.kind = "kv" /\ st.section \in {"@task", "@era"}
    THEN CASE line.key = "id" -> [st EXCEPT !.ev[1].ID = line.s]
           [] line.key = "class" -> [st EXCEPT !.ev[1].Class = line.s]
           [] line.key = "text" -> [st EXCEPT !.ev[1].Text = line.s]
           [] line.key = "title" -> [st EXCEPT !.ev[1].Title = line.s]
           [] line.key = "duration" -> [st EXCEPT !.ev[1].Duration = line.n]
           [] line.key = "time" -> [st EXCEPT !.ev[1].Time = line.n]
           [] OTHER -> st
    ELSE st

RECURSIVE ApiFold(_, _, _)
ApiFold(lines, k, st) ==
    IF k > Len(lines) THEN st ELSE ApiFold(lines, k + 1, ApiStep(st, lines[k]))

ApiBuild(lines) ==
    LET st == ApiFlush(ApiFold(lines, 1, ApiStart))
    IN  SetMargins(st.t, st.margins[1], st.margins[2], st.margins[3], st.margins[4])

\* GenerateFromCFG returned a document and no error.
CfgParsedOk == ps.status = "done" /\ ret.err = NoErr

\* C7 as stated: for a config that parses without error, the timeline the
\* parser builds (rows, events, id, width, tick count, tick height and the
\* four margins) equals the timeline built by the direct API calls with the
\* equivalent field values, and so does the generated document.
C7_ConfigEqualsDirectApi ==
    CfgParsedOk =>
        /\ Rebuild(tl) = ApiBuild(ps.input)
        /\ ret.doc = Generate(ApiBuild(ps.input)).doc

\* What of C7 the parser does achieve: rows, events, id, width, tick count
\* and tick height are those of the direct API calls.
CfgAgreesExceptMargins ==
    CfgParsedOk =>
        LET a == ApiBuild(ps.input)
        IN  /\ tl.rows = a.rows
            /\ tl.id = a.id
            /\ tl.width = a.width
            /\ tl.numTicks = a.numTicks
            /\ tl.tickHeight = a.tickHeight

(***************************************************************************)
(* Properties of the tick generator                                        *)
(***************************************************************************)
Ticks == ret.doc[1].ticks

\* The x of the time d on the axis of the generated timeline.
AxisX(d) == RatAdd(RatInt(tl.marginLeft), Rat(tl.contentWidth * d, tl.maxDuration))

\* C11 as stated: with a tick count numTicks > 0, tick i (i in 0..numTicks)
\* is at the time maxSpan * i / numTicks, so the first tick is at the left
\* margin and the last at the left margin plus the content width, also when
\* numTicks does not divide maxSpan. (The time is taken with Go's integer
\* division, the reading most favourable to the code.)
C11_TicksEvenlySpaced ==
    (GeneratedOk /\ tl.numTicks > 0) =>
        /\ Len(Ticks) = tl.numTicks + 1
        /\ \A i \in 0..tl.numTicks :
              Ticks[i + 1].line.X1 = AxisX(QuoT(tl.maxDuration * i, tl.numTicks))
        /\ Ticks[1].line.X1 = RatInt(tl.marginLeft)
        /\ Ticks[tl.numTicks + 1].line.X1 = RatInt(tl.marginLeft + tl.contentWidth)

\* What the tick generator does instead: tick i is at i times the truncated
\* step maxSpan / numTicks.
TicksAtTruncatedStep ==
    (GeneratedOk /\ tl.numTicks > 0) =>
        /\ Len(Ticks) = tl.numTicks + 1
        /\ \A i \in 0..tl.numTicks :
              Ticks[i + 1].line.X1 = AxisX(QuoT(tl.maxDuration, tl.numTicks) * i)

\* C12 as stated: every successful generation emits exactly numTicks + 1
\* tick marks, each with one label, for every tick count numTicks >= 0,
\* numTicks = 0 included.
C12_TickCountPlusOne ==
    (GeneratedOk /\ tl.numTicks >= 0) => (Len(Ticks) = tl.numTicks + 1)

\* C12, amended: a successful generation with numTicks > 0 emits exactly
\* numTicks + 1 tick marks, each with one label at the x of its mark; with
\* numTicks = 0 it emits no tick mark and no label.
C12_TickCount ==
    GeneratedOk =>
        /\ (tl.numTicks > 0) =>
              /\ Len(Ticks) = tl.numTicks + 1
              /\ \A j \in 1..Len(Ticks) :
                    /\ DOMAIN Ticks[j] = {"line", "label"}
                    /\ Ticks[j].label.X = Ticks[j].line.X1
        /\ (tl.numTicks = 0) => (Ticks = << >>)

C12_Witness ==
    /\ GeneratedOk /\ tl.numTicks = 3 /\ tl.maxDuration = 5
    /\ Len(Ticks) = 4
    /\ Ticks[4].label.Content = 3

(***************************************************************************)
(* Properties of the time origin                                           *)
(***************************************************************************)
StartTimes(t) == { AllEvents(t)[k].Time : k \in 1..NumEvents(t) } \ {0}

\* The minimum StartTime over the events that set one; the zero time when
\* none does.
MinStartTime(t) ==
    IF StartTimes(t) = {} THEN 0
    ELSE CHOOSE m \in StartTimes(t) : \A x \in StartTimes(t) : m <= x

HasEmptyRow(t) == \E i \in 1..Len(t.rows) : Len(t.rows[i].events) = 0

\* C13 as stated: after validation passes, the origin used for placement is
\* the minimum StartTime over all events of all rows that set one, and is
\* unset exactly when no event sets a StartTime, for every arrangement of
\* rows, rows without events included.
C13_OriginIsMinStartTime ==
    GeneratedOk => (tl.earliest = MinStartTime(tl))

\* The same for timelines all of whose rows have events.
OriginWithoutEmptyRows ==
    (GeneratedOk /\ ~HasEmptyRow(tl)) => (tl.earliest = MinStartTime(tl))

(***************************************************************************)
(* Properties of the content width                                         *)
(***************************************************************************)
\* C14 as stated: the content width used for the horizontal scaling and for
\* the axis line is the configured width minus the left and right margins.
C14_ContentWidthIsWidthLessMargins ==
    GeneratedOk =>
        /\ tl.contentWidth = tl.width - tl.marginLeft - tl.marginRight
        /\ ret.doc[1].axis.X2 - ret.doc[1].axis.X1
              = tl.width - tl.marginLeft - tl.marginRight

\* C14, amended: the content width used for the horizontal scaling and for
\* the axis line is the configured precision capped by the maximum span,
\* whatever the configured width and margins; the margins are added around
\* it in the view box.
C14_ContentWidthIsCappedPrecision ==
    GeneratedOk =>
        LET cw == Min2(tl.precision, tl.maxDuration)
            doc == ret.doc[1]
        IN  /\ tl.contentWidth = cw
            /\ doc.axis.X1 = tl.marginLeft
            /\ doc.axis.X2 - doc.axis.X1 = cw
            /\ doc.ViewBox[3] = cw + tl.marginLeft + tl.marginRight
            /\ \A k \in 1..Len(doc.groups) :
                  doc.groups[k].rect.Width
                     = Rat(cw * AllEvents(tl)[k].Duration, tl.maxDuration)

C14_Witness ==
    /\ GeneratedOk
    /\ tl.width = 50 /\ tl.marginLeft = 5 /\ tl.marginRight = 40
    /\ tl.precision = 2 /\ tl.maxDuration = 3
    /\ ret.doc[1].axis.X2 - ret.doc[1].axis.X1 = 2
    /\ Len(ret.doc[1].groups) = 2

(***************************************************************************)
(* Errors of the config parser                                             *)
(***************************************************************************)
ErrNoRow == "cannot add an event without creating a row first"

\* GenerateFromCFG has returned (or crashed).
CfgTerminated == ps.status \in {"done", "error", "panic"}

IsEventLine(l) == l.kind = "section" /\ l.marker \in {"@era", "@task"}

IsRowLine(l) == l.kind = "section" /\ l.marker = "@row"

\* Line k of the input opens an event and no @row line precedes it.
OrphanAt(input, k) ==
    /\ IsEventLine(input[k])
    /\ \A j \in 1..(k - 1) : ~IsRowLine(input[j])

\* The errors of a key=value (or malformed) line inside an event section.
EventLineErrors ==
    {"unknown value", "while parsing duration of event",
     "unrecognized time format", "unknown event property"}

\* C15: a config with an @era or @task section that no @row line precedes
\* never yields a document: parsing fails, and unless a line of that event
\* section is itself in error, it fails at the next section marker or at
\* the end of the input with the line-numbered error that an event cannot
\* be added without a row.
C15_EventWithoutRowRejected ==
    (CfgTerminated /\ \E k \in 1..Len(ps.input) : OrphanAt(ps.input, k)) =>
        /\ ps.status = "error"
        /\ ret.doc = << >>
        /\ \/ /\ ps.err.msg = ErrNoRow
              /\ ret.err = ErrNoRow
              /\ ps.err.line = Len(ps.input)
              /\ ps.err.line >= 1
           \/ /\ ps.input[Len(ps.input)].kind \in {"kv", "junk"}
              /\ ps.err.msg \in EventLineErrors

\* An @era section with a key, then an @row marker: the error is reported
\* at the marker.
C15_Witness ==
    /\ ps.status = "error" /\ ps.err.msg = ErrNoRow /\ ps.err.line = 3
    /\ Len(ps.input) = 3
    /\ OrphanAt(ps.input, 1) /\ ps.input[1].marker = "@era"
    /\ ps.input[2].kind = "kv"
    /\ IsRowLine(ps.input[3])
    /\ ret.doc = << >>

\* The same event followed by the end of the input.
OrphanAtEndOfInput ==
    /\ ps.status = "error" /\ ps.err.msg = ErrNoRow /\ ps.err.line = 2
    /\ Len(ps.input) = 2
    /\ OrphanAt(ps.input, 1)
    /\ ps.input[2].kind = "kv"

\* The errors of a line that does not start with @.
KeyValueErrors ==
    EventLineErrors
    \cup {"strconv.Atoi", "unknown property", "row has no configuration options",
          "unknown section"}

\* C16 as stated: every error reported for a line (unrecognized key,
\* malformed key=value, numeric, duration or time parse failure, a key=value
\* line in a section that does not accept it or before any section) carries
\* the 1-based number of the physical line it occurred on, blank and comment
\* lines counted, and parsing stops there with no document.
C16_ErrorsCarryLineNumber ==
    (ps.status = "error" /\ ps.err.msg \in KeyValueErrors) =>
        /\ ps.err.line = Len(ps.input)
        /\ ps.err.line >= 1
        /\ ret.doc = << >>

\* What holds: these errors stop the parser at the line in error with no
\* document, and all of them but the time parse failure and the key=value
\* line outside a known section carry the number of that line.
ErrorsStopAtLine ==
    (ps.status = "error" /\ ps.err.msg \in KeyValueErrors) =>
        /\ ps.lineNum = Len(ps.input)
        /\ ps.input[Len(ps.input)].kind \in {"kv", "junk"}
        /\ ret.doc = << >>
        /\ IF ps.err.msg \in {"unrecognized time format", "unknown section"}
           THEN ps.err.line = 0
           ELSE ps.err.line = Len(ps.input)

\* The step of GenerateFromCFG that follows the last line.
AtEndOfInput == ps.status = "scanning" /\ ps'.status # "scanning" /\ ps'.input = ps.input

\* C17: at the end of the input an event that is still pending is appended
\* to the last row, once; when an event is pending and there is no row,
\* parsing fails with an error and nothing is appended.
C17_PendingEventFlushedAtEnd ==
    [][ (AtEndOfInput /\ ps.currentEvent # << >>) =>
           IF Len(tl.rows) = 0
           THEN /\ ps'.status = "error"
                /\ ps'.err.msg = ErrNoRow
                /\ ret'.doc = << >>
                /\ tl'.rows = << >>
           ELSE /\ ps'.status = "done"
                /\ ps'.currentEvent = << >>
                /\ tl'.rows = [tl.rows EXCEPT ![Len(tl.rows)].events =
                                  Append(@, ps.currentEvent[1])] ]_vars

\* A config that ends inside the section of its only event: the document
\* is returned and the event is in the last row, once.
C17_Witness ==
    /\ ps.status = "done" /\ ret.err = NoErr
    /\ Len(ps.input) = 4
    /\ IsRowLine(ps.input[1]) /\ IsRowLine(ps.input[2])
    /\ IsEventLine(ps.input[3]) /\ ps.input[4].key = "duration"
    /\ tl.rows[1].events = << >>
    /\ Len(tl.rows[2].events) = 1
    /\ tl.rows[2].events[1].Duration = 2

(***************************************************************************)
(* Escaping of user-supplied strings                                       *)
(***************************************************************************)
ReservedChars == {"&", "<", ">", "\"", "'"}

EntityOf ==
    [c \in ReservedChars |->
        IF c = "&" THEN "&amp;"
        ELSE IF c = "<" THEN "&lt;"
        ELSE IF c = ">" THEN "&gt;"
        ELSE IF c = "\"" THEN "&#34;"
        ELSE "&#39;"]

\* out is s with every reserved character replaced by its entity, and so
\* holds no reserved character.
EmittedEscaped(s, out) ==
    /\ Len(out) = Len(s)
    /\ \A i \in 1..Len(s) :
          /\ out[i] = (IF s[i] \in ReservedChars THEN EntityOf[s[i]] ELSE s[i])
          /\ out[i] \notin ReservedChars

\* C18: in every generated document the timeline identifier and every
\* event's identifier, tooltip title and label text are emitted with each
\* of & < > " ' replaced by its entity.
C18_UserStringsEscaped ==
    GeneratedOk =>
        /\ EmittedEscaped(tl.id, ret.doc[1].ID)
        /\ \A k \in 1..Len(Groups) :
              LET e == AllEvents(tl)[k]
                  grp == Groups[k]
              IN  /\ EmittedEscaped(e.ID, grp.ID)
                  /\ \A j \in 1..Len(grp.title) : EmittedEscaped(e.Title, grp.title[j])
                  /\ \A j \in 1..Len(grp.text) : EmittedEscaped(e.Text, grp.text[j].Content)

C18_Witness ==
    /\ GeneratedOk /\ tl.id = ReservedText
    /\ Len(Groups) = 2
    /\ \A k \in 1..2 :
          /\ AllEvents(tl)[k].ID = ReservedText
          /\ AllEvents(tl)[k].Text = ReservedText
          /\ AllEvents(tl)[k].Title = ReservedText
          /\ Len(Groups[k].title) = 1
          /\ Len(Groups[k].text) = 1
          /\ Groups[k].text[1].Content[3] = "&lt;"
    /\ AllEvents(tl)[1].Type # AllEvents(tl)[2].Type

(***************************************************************************)
(* Invariants of the configuration                                         *)
(***************************************************************************)
\* C19 as stated: after any sequence of configuration operations the width
\* of the timeline is positive and its tick count is non-negative.
C19_WidthPositiveTicksNonNegative ==
    /\ tl.width > 0
    /\ tl.numTicks >= 0

(***************************************************************************)
(* Row accessors                                                           *)
(***************************************************************************)
\* C20 as stated: GetRowByIndex(i) returns the i-th added row when
\* 0 <= i < number of rows and returns nil, without failing, for every other
\* integer i, too large or negative; GetLastRow returns the most recently
\* added row, or nil when no row was added.
C20_RowAccessorsTotal ==
    /\ (ret.op = "GetRowByIndex") =>
          /\ ret.err = NoErr
          /\ ret.doc = (IF 0 <= ret.arg /\ ret.arg < Len(tl.rows)
                        THEN << ret.arg + 1 >> ELSE << >>)
    /\ (ret.op = "GetLastRow") =>
          /\ ret.err = NoErr
          /\ ret.doc = (IF Len(tl.rows) = 0 THEN << >> ELSE << Len(tl.rows) >>)

\* The same for the indexes that are not negative.
RowAccessorsFromZero ==
    /\ (ret.op = "GetRowByIndex" /\ ret.arg >= 0) =>
          /\ ret.err = NoErr
          /\ ret.doc = (IF ret.arg < Len(tl.rows) THEN << ret.arg + 1 >> ELSE << >>)
    /\ (ret.op = "GetLastRow") =>
          /\ ret.err = NoErr
          /\ ret.doc = (IF Len(tl.rows) = 0 THEN << >> ELSE << Len(tl.rows) >>)

(***************************************************************************)
(* Properties of the spans                                                 *)
(***************************************************************************)
MaxOf(S) == IF S = {} THEN 0 ELSE CHOOSE m \in S : \A x \in S : x <= m

\* The span of a row for the origin o: the larger of the sum of the
\* durations of its events and of the largest (StartTime - o) + Duration
\* over its events that set a StartTime.
RowSpan(row, o) ==
    Max2(SumDurations(row.events, 1),
         MaxOf({ (row.events[k].Time - o) + row.events[k].Duration :
                   k \in { j \in 1..Len(row.events) : row.events[j].Time # 0 } }))

\* maxSpan: the largest span of a row, the origin being the minimum
\* StartTime.
MaxSpan(t) == MaxOf({ RowSpan(t.rows[i], MinStartTime(t)) : i \in 1..Len(t.rows) })

\* The elapsed time at which event k of row r starts: its StartTime less
\* the origin, or the durations before it in its row when no event sets a
\* StartTime.
ElapsedOf(t, r, k) ==
    IF MinStartTime(t) # 0 THEN t.rows[r].events[k].Time - MinStartTime(t)
    ELSE SumDurations(SubSeq(t.rows[r].events, 1, k - 1), 1)

\* C21 as stated: the span of a row is the larger of the sum of its
\* durations and of the largest (StartTime - origin) + Duration, maxSpan is
\* the largest span of a row, and it is the denominator of every x and
\* width of the generation.
C21_MaxSpanIsDenominator ==
    GeneratedOk =>
        /\ tl.maxDuration = MaxSpan(tl)
        /\ \A r \in 1..Len(tl.rows) : \A k \in 1..Len(tl.rows[r].events) :
              LET rect == Groups[RowOffset(tl, r) + k].rect
              IN  /\ rect.Width
                        = Rat(tl.contentWidth * tl.rows[r].events[k].Duration, MaxSpan(tl))
                  /\ rect.X
                        = RatAdd(RatInt(tl.marginLeft),
                                 Rat(tl.contentWidth * ElapsedOf(tl, r, k), MaxSpan(tl)))

\* The same for timelines all of whose rows have events.
SpanWithoutEmptyRows ==
    (GeneratedOk /\ ~HasEmptyRow(tl)) =>
        /\ tl.maxDuration = MaxSpan(tl)
        /\ \A r \in 1..Len(tl.rows) : \A k \in 1..Len(tl.rows[r].events) :
              LET rect == Groups[RowOffset(tl, r) + k].rect
              IN  /\ rect.Width
                        = Rat(tl.contentWidth * tl.rows[r].events[k].Duration, MaxSpan(tl))
                  /\ rect.X
                        = RatAdd(RatInt(tl.marginLeft),
                                 Rat(tl.contentWidth * ElapsedOf(tl, r, k), MaxSpan(tl)))

(***************************************************************************)
(* Properties of the vertical layout                                       *)
(***************************************************************************)
\* The vertical offset of row r: the top margin and the heights and
\* separators of the rows before it.
RECURSIVE RowY(_, _)
RowY(t, r) ==
    IF r = 1 THEN t.marginTop
    ELSE RowY(t, r - 1) + t.rows[r - 1].height + t.rows[r - 1].separatorHeight

\* The rectangles of the events of kind ty, as << row, rect >>.
RectsOfType(ty) ==
    UNION { { << r, Groups[RowOffset(tl, r) + k].rect >> :
                k \in { j \in 1..Len(tl.rows[r].events) :
                          tl.rows[r].events[j].Type = ty } } :
            r \in 1..Len(tl.rows) }

\* C22: every Task of row r is drawn at y = topMargin + the sum over the
\* rows before it of (height + separator), with the height of its row;
\* the bands of Tasks of different rows do not overlap and follow the
\* insertion order.
C22_TaskBands ==
    GeneratedOk =>
        /\ \A p \in RectsOfType(EventTypeTask) :
              /\ p[2].Y = RowY(tl, p[1])
              /\ p[2].Height = tl.rows[p[1]].height
        /\ \A p, q \in RectsOfType(EventTypeTask) :
              (p[1] < q[1]) => (p[2].Y + p[2].Height <= q[2].Y)

C22_Witness ==
    /\ GeneratedOk /\ Len(tl.rows) = 2
    /\ tl.rows[1].height = 20 /\ tl.rows[1].separatorHeight = 5
    /\ tl.rows[2].height = 30
    /\ tl.marginTop = 15
    /\ \E p, q \in RectsOfType(EventTypeTask) :
          /\ p[1] = 1 /\ q[1] = 2
          /\ p[2].Y = 15 /\ p[2].Height = 20
          /\ q[2].Y = 40 /\ q[2].Height = 30

\* C23 as stated: every Era rectangle starts at the vertical offset of its
\* row and has a non-negative height, its bottom edge at or below the
\* bottom of the band of its row and of every row beneath it, for every
\* tick height, margins and non-negative row heights and separators.
C23_EraReachesBelowRows ==
    GeneratedOk =>
        \A p \in RectsOfType(EventTypeEra) :
            /\ p[2].Y = RowY(tl, p[1])
            /\ p[2].Height >= 0
            /\ \A j \in p[1]..Len(tl.rows) :
                  p[2].Y + p[2].Height >= RowY(tl, j) + tl.rows[j].height

\* What holds: the bottom edge of every Era is at top margin + content
\* height + 15 - 2 * tick height, which is below the rows while twice the
\* tick height does not exceed 15.
EraBottomEdge ==
    GeneratedOk =>
        \A p \in RectsOfType(EventTypeEra) :
            /\ p[2].Y = RowY(tl, p[1])
            /\ p[2].Y + p[2].Height
                  = tl.marginTop + tl.contentHeight + 15 - 2 * tl.tickHeight
            /\ (2 * tl.tickHeight <= 15) =>
                  /\ p[2].Height >= 0
                  /\ \A j \in p[1]..Len(tl.rows) :
                        p[2].Y + p[2].Height >= RowY(tl, j) + tl.rows[j].height

(***************************************************************************)
(* Properties of the labels                                                *)
(***************************************************************************)
\* The font size of the label of event e in a row of height h on a
\* rectangle of width w: the integer part of min(h div 2, w / (0.7 * length
\* of the label)), less 1 for an Era.
LabelSize(e, h, w) ==
    LET byHeight == h \div 2
        \* the integer part of w / (0.7 * length) = 10 * w / (7 * length)
        byWidth == (10 * w[1]) \div (7 * Len(e.Text) * w[2])
        size == IF byHeight <= byWidth THEN byHeight ELSE byWidth
    IN  IF e.Type = EventTypeEra THEN size - 1 ELSE size

\* The labelled events of the timeline, as << event, row height, group >>.
Labelled ==
    UNION { { << tl.rows[r].events[k], tl.rows[r].height, Groups[RowOffset(tl, r) + k] >> :
                k \in { j \in 1..Len(tl.rows[r].events) :
                          tl.rows[r].events[j].Text # << >> } } :
            r \in 1..Len(tl.rows) }

\* C24: the label of an event is drawn exactly when its font size, the
\* integer part of min(rowHeight div 2, width / (0.7 * label length)) less
\* 1 for an Era, is at least 3, and then with that size; the generation
\* succeeds either way. Hence for the same rectangle width, row height and
\* label an Era label is one unit smaller than the Task label and is
\* omitted whenever the Task size is 3 or less.
C24_LabelSize ==
    GeneratedOk =>
        /\ \A p \in Labelled :
              LET size == LabelSize(p[1], p[2], p[3].rect.Width)
              IN  /\ (Len(p[3].text) = 1) <=> (size >= 3)
                  /\ (Len(p[3].text) = 1) => (p[3].text[1].FontSize = size)
        /\ \A p, q \in Labelled :
              ( /\ p[1].Type = EventTypeTask /\ q[1].Type = EventTypeEra
                /\ p[1].Text = q[1].Text /\ p[2] = q[2]
                /\ p[3].rect.Width = q[3].rect.Width ) =>
                 /\ (Len(q[3].text) = 1) =>
                       /\ Len(p[3].text) = 1
                       /\ q[3].text[1].FontSize = p[3].text[1].FontSize - 1
                 /\ (Len(p[3].text) = 0 \/ p[3].text[1].FontSize <= 3) =>
                       (Len(q[3].text) = 0)

\* A Task and an Era of the same width in a row of height 6: the Task label
\* has size 3, the Era label is omitted.
C24_Witness ==
    /\ GeneratedOk
    /\ \E p, q \in Labelled :
          /\ p[1].Type = EventTypeTask /\ q[1].Type = EventTypeEra
          /\ p[2] = 6 /\ q[2] = 6
          /\ p[3].rect.Width = q[3].rect.Width
          /\ Len(p[3].text) = 1 /\ p[3].text[1].FontSize = 3
          /\ Len(q[3].text) = 0

(***************************************************************************)
(* Properties of the maximum span and of long durations                    *)
(***************************************************************************)
\* The sum of the durations of the events k.. of a sequence, as an
\* unbounded integer.
RECURSIVE PlainSum(_, _)
PlainSum(events, k) ==
    IF k > Len(events) THEN 0 ELSE events[k].Duration + PlainSum(events, k + 1)

\* Every event of the model has exactly one rectangle, in row order then
\* event order, scaled by a positive maximum span.
OneRectanglePerEvent ==
    /\ tl.maxDuration > 0
    /\ Len(Groups) = NumEvents(tl)
    /\ \A k \in 1..NumEvents(tl) :
          Groups[k].rect.Width =
              Rat(tl.contentWidth * AllEvents(tl)[k].Duration, tl.maxDuration)

\* C25: whenever validation passes, maxSpan is strictly positive, so the
\* axis-only branch is never taken and every event of the model gets
\* exactly one rectangle, in row order then event order.
C25_MaxSpanPositive == GeneratedOk => OneRectanglePerEvent

\* What the code guarantees: the same, for timelines whose durations sum to
\* a value that a time.Duration can hold.
MaxSpanPositiveWithoutOverflow ==
    (GeneratedOk /\ PlainSum(AllEvents(tl), 1) <= MaxInt64Duration) =>
        OneRectanglePerEvent

\* Validation passed, some event has a positive duration, and the document
\* has the axis only.
AxisOnlyAfterValidation ==
    /\ GeneratedOk
    /\ \E k \in 1..NumEvents(tl) : AllEvents(tl)[k].Duration > 0
    /\ tl.maxDuration <= 0
    /\ Groups = << >>
    /\ Ticks = << >>

\* C30: a timeline whose events all have Duration >= 0, use the start time
\* consistently and include at least one event with Duration > 0 is never
\* rejected with the no-positive-duration error.
C30_PositiveDurationAccepted ==
    ( /\ Generated
      /\ ~HasNegative(tl)
      /\ ~HasMixedTime(tl)
      /\ \E k \in 1..NumEvents(tl) : AllEvents(tl)[k].Duration > 0 ) =>
        ret.err # ErrNoPositiveDuration

\* What the code guarantees: the same, for timelines whose durations sum to
\* a value that a time.Duration can hold.
PositiveDurationAcceptedWithoutOverflow ==
    ( /\ Generated
      /\ ~HasNegative(tl)
      /\ ~HasMixedTime(tl)
      /\ \E k \in 1..NumEvents(tl) : AllEvents(tl)[k].Duration > 0
      /\ PlainSum(AllEvents(tl), 1) <= MaxInt64Duration ) =>
        ret.err = NoErr

\* The no-positive-duration error is returned only when the wrapped sum of
\* the durations is zero.
NoPositiveErrorIffWrappedSumZero ==
    (Generated /\ ~HasNegative(tl) /\ ~HasMixedTime(tl)) =>
        ((ret.err = ErrNoPositiveDuration) <=>
            (PlainSum(AllEvents(tl), 1) % 2^DurBits = 0))

(***************************************************************************)
(* Placement of the events of a config                                     *)
(***************************************************************************)
\* The number of @row lines before line i of the input: the row that is the
\* last one when line i is read.
RowOf(input, i) == Cardinality({ j \in 1..(i - 1) : IsRowLine(input[j]) })

\* The line that ends the section opened at line i: the next section line,
\* or the line after the last.
SectionEnd(input, i) ==
    LET later == { j \in (i + 1)..Len(input) : input[j].kind = "section" }
    IN  IF later = {} THEN Len(input) + 1
        ELSE CHOOSE j \in later : \A k \in later : j <= k

\* The last line of the section opened at line i that sets the key, 0 if
\* none does.
LastKeyLine(input, i, key) ==
    LET set == { j \in (i + 1)..(SectionEnd(input, i) - 1) :
                    input[j].kind = "kv" /\ input[j].key = key }
    IN  IF set = {} THEN 0 ELSE CHOOSE j \in set : \A k \in set : k <= j

\* The event that the section opened at line i describes.
SectionEvent(input, i) ==
    LET str(key) == IF LastKeyLine(input, i, key) = 0 THEN << >>
                    ELSE input[LastKeyLine(input, i, key)].s
        num(key) == IF LastKeyLine(input, i, key) = 0 THEN 0
                    ELSE input[LastKeyLine(input, i, key)].n
    IN  Event(IF input[i].marker = "@era" THEN EventTypeEra ELSE EventTypeTask,
              str("id"), str("class"), str("text"), str("title"),
              num("duration"), num("time"))

\* The section opened at line i is over: another section line follows it, or
\* the input has ended.
SectionClosed(input, i) ==
    ps.status = "done" \/ SectionEnd(input, i) <= Len(input)

\* The events of the closed event sections from line i on that belong to
\* row r, in the order of their section lines.
RECURSIVE EventsOfRow(_, _, _)
EventsOfRow(input, r, i) ==
    IF i > Len(input) THEN << >>
    ELSE (IF IsEventLine(input[i]) /\ RowOf(input, i) = r /\ SectionClosed(input, i)
          THEN << SectionEvent(input, i) >> ELSE << >>)
         \o EventsOfRow(input, r, i + 1)

\* C26: while a config is parsed without error and when it has been parsed,
\* the rows are those of the @row lines, and each row holds exactly the
\* events of the closed @era and @task sections whose nearest preceding
\* @row line created it, once each, in the order of their section lines,
\* and every closed event section has such a row: a later @row or @timeline
\* line neither moves an event to another row nor drops it.
C26_EventsStayInTheirRow ==
    ps.status \in {"scanning", "done"} =>
        /\ Len(tl.rows) = RowOf(ps.input, Len(ps.input) + 1)
        /\ \A r \in 1..Len(tl.rows) :
              tl.rows[r].events = EventsOfRow(ps.input, r, 1)
        /\ \A i \in 1..Len(ps.input) :
              (IsEventLine(ps.input[i]) /\ SectionClosed(ps.input, i)) =>
                 RowOf(ps.input, i) >= 1

\* A Task with a duration, then a second @row line and an Era: the Task is
\* in the first row, the Era in the second.
C26_Witness ==
    /\ CfgParsedOk
    /\ Len(ps.input) = 5
    /\ IsRowLine(ps.input[1])
    /\ ps.input[2].marker = "@task"
    /\ ps.input[3].key = "duration"
    /\ IsRowLine(ps.input[4])
    /\ ps.input[5].marker = "@era"
    /\ Len(tl.rows) = 2
    /\ Len(tl.rows[1].events) = 1
    /\ tl.rows[1].events[1].Type = EventTypeTask
    /\ tl.rows[1].events[1].Duration = 2
    /\ Len(tl.rows[2].events) = 1
    /\ tl.rows[2].events[1].Type = EventTypeEra

(***************************************************************************)
(* Margins of a config                                                     *)
(***************************************************************************)
MarginKeys == << "margin_top", "margin_right", "margin_bottom", "margin_left" >>

\* The four margins of a timeline, in the order of MarginKeys.
MarginsOf(t) == << t.marginTop, t.marginRight, t.marginBottom, t.marginLeft >>

\* The lines of the input that set the key.
LinesSetting(input, key) ==
    { j \in 1..Len(input) : input[j].kind = "kv" /\ input[j].key = key }

\* C27: after parsing a config, every margin that no line of the config
\* sets has its default value (top 15, right 30, bottom 15, left 10).
C27_UnsetMarginsKeepDefaults ==
    ps.status = "done" =>
        \A m \in 1..4 :
            LinesSetting(ps.input, MarginKeys[m]) = {} =>
                MarginsOf(tl)[m] = MarginsOf(NewTimeline)[m]

\* What the parser does: a config that sets no margin keeps the four
\* defaults; in a config that sets some margin, a margin has the value of
\* the last line that sets it, and 0 if no line sets it.
UnsetMarginsAreZero ==
    ps.status = "done" =>
        IF \A m \in 1..4 : LinesSetting(ps.input, MarginKeys[m]) = {}
        THEN MarginsOf(tl) = MarginsOf(NewTimeline)
        ELSE \A m \in 1..4 :
                LET set == LinesSetting(ps.input, MarginKeys[m])
                IN  MarginsOf(tl)[m] =
                        IF set = {} THEN 0
                        ELSE ps.input[CHOOSE j \in set : \A k \in set : k <= j].n

\* A config that sets margin_top only and is parsed to a document.
OnlyTopMarginSet ==
    /\ CfgParsedOk
    /\ LinesSetting(ps.input, "margin_top") # {}
    /\ LinesSetting(ps.input, "margin_left") = {}
    /\ MarginsOf(tl) = << 20, 0, 0, 0 >>

(***************************************************************************)
(* Termination of GenerateFromCFG                                          *)
(***************************************************************************)
\* C28: GenerateFromCFG ends by returning a document or an error, never by
\* crashing; when the input ends with a row created and no event pending,
\* no event is appended and parsing completes normally.
C28_NeverCrashes ==
    [][ /\ ps'.status # "panic"
        /\ (AtEndOfInput /\ Len(tl.rows) > 0 /\ ps.currentEvent = << >>) =>
              /\ ps'.status = "done"
              /\ tl'.rows = tl.rows ]_vars

\* What the code does at the end of the input: it crashes exactly when a row
\* exists and no event is pending.
CrashesIffNoPendingEvent ==
    [][ AtEndOfInput =>
           ((ps'.status = "panic") <=>
               (Len(tl.rows) > 0 /\ ps.currentEvent = << >>)) ]_vars

\* GenerateFromCFG crashed on a config whose only line is @row.
CrashedOnRowOnly ==
    /\ ps.status = "panic"
    /\ Len(ps.input) = 1
    /\ IsRowLine(ps.input[1])

(***************************************************************************)
(* Rectangles and the content area                                         *)
(***************************************************************************)
\* Every rectangle of the document lies between the left margin and the
\* left margin plus contentWidth.
RectanglesInsideContentArea ==
    \A k \in 1..Len(Groups) :
        LET rect == Groups[k].rect
        IN  /\ RatLeq(RatInt(tl.marginLeft), rect.X)
            /\ RatLeq(RatAdd(rect.X, rect.Width),
                      RatInt(tl.marginLeft + tl.contentWidth))

\* C29: in every successful generation, in sequential and in absolute
\* mode, every event rectangle lies inside the horizontal content area,
\* leftMargin <= x and x + width <= leftMargin + contentWidth, rows with no
\* events included.
C29_RectanglesInsideContentArea == GeneratedOk => RectanglesInsideContentArea

\* The same for timelines all of whose rows have events.
InsideContentAreaWithoutEmptyRows ==
    (GeneratedOk /\ ~HasEmptyRow(tl)) => RectanglesInsideContentArea

\* A rectangle that starts to the left of the left margin.
RectangleLeftOfMargin ==
    /\ GeneratedOk
    /\ \E k \in 1..Len(Groups) :
          ~RatLeq(RatInt(tl.marginLeft), Groups[k].rect.X)

====
